---- MODULE Spec2Model ----
(***************************************************************************)
(* b-cleaner: the token cleaning pipeline of src/src/cleaners.rs, built    *)
(* with the default features (neither html nor stem).                      *)
(*                                                                         *)
(* A str is a sequence of characters; a character is a one-element name.   *)
(* A Cow<str> is a record [s, owned]: s the content, owned = FALSE for     *)
(* Cow::Borrowed and TRUE for Cow::Owned.                                  *)
(***************************************************************************)
EXTENDS Integers, Sequences, FiniteSets, TLC

VARIABLES variant, input, tokens, token_min_lenght, pc, calls, call, arg, ret

vars == <<variant, input, tokens, token_min_lenght, pc, calls, call, arg, ret>>

---------------------------------------------------------------------------
(* Bounds of the model *)

\* longest token (in characters) handed to a primitive transform
MaxTokLen == 3
\* longest token sequence handed to a sequence transform
MaxArgLen == 3
\* longest token sequence a cleaner is constructed over
MaxSeqLen == 3
\* largest threshold handed to token_min_lenght
MaxThreshold == 3
\* number of clean() calls on one cleaner
MaxCleans == 2

---------------------------------------------------------------------------
(* Characters.  The non-ASCII characters are U+00C9 (E_acute), U+00E9      *)
(* (e_acute) and U+00B9 (sup1, superscript one); each takes two bytes in   *)
(* UTF-8.                                                                  *)

AsciiLower == {"a", "b", "e"}
AsciiUpper == {"A", "E"}
AsciiDigit == {"1"}
AsciiPunct == {"-", "(", ")", "[", "]", ".", ":", "?", "!"}
AsciiSpace == {" "}
NonAscii == {"E_acute", "e_acute", "sup1"}

is_ascii(c) == c \notin NonAscii
is_ascii_alphabetic(c) == c \in AsciiLower \cup AsciiUpper
is_ascii_lowercase(c) == c \in AsciiLower
is_ascii_digit(c) == c \in AsciiDigit
is_ascii_punctuation(c) == c \in AsciiPunct
is_ascii_whitespace(c) == c \in AsciiSpace
\* char::is_whitespace (the White_Space property), which str::trim uses
is_whitespace(c) == c \in AsciiSpace

\* char::len_utf8
len_utf8(c) == IF is_ascii(c) THEN 1 ELSE 2

\* str::len: the length in bytes
RECURSIVE len(_)
len(s) == IF s = <<>> THEN 0 ELSE len_utf8(Head(s)) + len(Tail(s))

\* char::to_ascii_lowercase
to_ascii_lowercase(c) ==
    CASE c = "A" -> "a"
      [] c = "E" -> "e"
      [] OTHER -> c

\* char::to_lowercase (Unicode)
char_to_lowercase(c) ==
    CASE c = "E_acute" -> "e_acute"
      [] OTHER -> to_ascii_lowercase(c)

\* str::to_lowercase
to_lowercase(s) == [i \in 1..Len(s) |-> char_to_lowercase(s[i])]

\* str::make_ascii_lowercase
make_ascii_lowercase(s) == [i \in 1..Len(s) |-> to_ascii_lowercase(s[i])]

\* unidecode::unidecode_char: the ASCII transliteration of one character
unidecode_char(c) ==
    CASE c = "E_acute" -> <<"E">>
      [] c = "e_acute" -> <<"e">>
      [] c = "sup1" -> <<"1">>
      [] OTHER -> <<c>>

\* unidecode::unidecode
RECURSIVE unidecode(_)
unidecode(s) == IF s = <<>> THEN <<>> ELSE unidecode_char(Head(s)) \o unidecode(Tail(s))

---------------------------------------------------------------------------
(* Helpers of the standard library *)

\* Option<usize>: None is <<>>, Some(i) is <<i>>
None == <<>>
Some(i) == <<i>>

\* the elements of s at the indices K, in order (Iterator::filter + collect)
Pick(s, K) ==
    [j \in 1..Cardinality(K) |->
        s[CHOOSE i \in K : Cardinality({k \in K : k <= i}) = j]]

\* str::starts_with, str::ends_with
starts_with(s, p) == Len(p) <= Len(s) /\ SubSeq(s, 1, Len(p)) = p
ends_with(s, p) == Len(p) <= Len(s) /\ SubSeq(s, Len(s) - Len(p) + 1, Len(s)) = p

\* str::trim
trim(s) ==
    LET keep == {i \in 1..Len(s) : ~is_whitespace(s[i])}
    IN  IF keep = {} THEN <<>>
        ELSE SubSeq(s, CHOOSE i \in keep : \A k \in keep : i <= k,
                       CHOOSE i \in keep : \A k \in keep : k <= i)

Borrowed(s) == [s |-> s, owned |-> FALSE]
Owned(s) == [s |-> s, owned |-> TRUE]

---------------------------------------------------------------------------
(* Primitive transforms of one token *)

token_to_lowercase(token) ==
    IF \E i \in 1..Len(token.s) :
          is_ascii_alphabetic(token.s[i]) /\ ~is_ascii_lowercase(token.s[i])
    THEN IF ~token.owned
         THEN Owned(to_lowercase(token.s))
         ELSE Owned(make_ascii_lowercase(token.s))
    ELSE token

token_trim(token) ==
    LET chars == token.s
        last  == IF chars = <<>> THEN None ELSE Some(chars[Len(chars)])
        first == IF chars = <<>> THEN None ELSE Some(chars[1])
    IN  IF last = None /\ first = None THEN token
        ELSE IF last # None
        THEN IF is_ascii_whitespace(last[1]) THEN Owned(trim(token.s)) ELSE token
        ELSE IF is_ascii_whitespace(first[1]) THEN Owned(trim(token.s)) ELSE token

unidecode_token(token) ==
    IF \E i \in 1..Len(token.s) : ~is_ascii(token.s[i])
    THEN Owned(unidecode(token.s))
    ELSE token

\* the index of enumerate() counts characters from 0; token.len() counts bytes
remove_token_digit_and_punctuation(token) ==
    IF \E i \in 1..Len(token.s) :
          is_ascii_digit(token.s[i]) \/ is_ascii_punctuation(token.s[i])
    THEN Owned(Pick(token.s,
            {i \in 1..Len(token.s) :
                \/ ~is_ascii_punctuation(token.s[i]) /\ ~is_ascii_digit(token.s[i])
                \/ token.s[i] = "-" /\ i - 1 > 0 /\ i - 1 < len(token.s)}))
    ELSE token

\* chars.any() consumes the iterator up to and including the first non-ASCII
\* character; the filter then runs over what is left of it
remove_token_non_ascii_chars(token) ==
    LET non == {i \in 1..Len(token.s) : ~is_ascii(token.s[i])}
    IN  IF non # {}
        THEN LET k == CHOOSE i \in non : \A j \in non : i <= j
                 rest == SubSeq(token.s, k + 1, Len(token.s))
             IN  Owned(SelectSeq(rest, is_ascii))
        ELSE token

---------------------------------------------------------------------------
(* Sequence transforms.  A call that can panic (an index out of bounds)    *)
(* returns [panic, tokens]: tokens is the vector the call leaves.          *)

Ok(toks) == [panic |-> FALSE, tokens |-> toks]
Panicked(toks) == [panic |-> TRUE, tokens |-> toks]

\* Iterator::position: the 0-based index of the first element satisfying the
\* predicate, given the set of the (1-based) places where it holds
position(hits) ==
    IF hits # {}
    THEN Some((CHOOSE i \in hits : \A j \in hits : i <= j) - 1)
    ELSE None

\* slice::split_at(mid): panics if mid > len
split_at(s, mid) ==
    IF mid <= Len(s)
    THEN [panic |-> FALSE, left |-> SubSeq(s, 1, mid), right |-> SubSeq(s, mid + 1, Len(s))]
    ELSE [panic |-> TRUE, left |-> s, right |-> <<>>]

\* the tokens after the range come out ahead of those before it
drain_rotating(s, lo, hi) ==
    IF lo <= hi /\ hi <= Len(s)
    THEN Ok(SubSeq(s, hi + 1, Len(s)) \o SubSeq(s, 1, lo))
    ELSE Panicked(s)

\* Vec::drain(lo..hi): panics if lo > hi or hi > len
drain(s, lo, hi) ==
    IF lo <= hi /\ hi <= Len(s)
    THEN Ok(SubSeq(s, 1, lo) \o SubSeq(s, hi + 1, Len(s)))
    ELSE Panicked(s)

\* Vec::retain, given the set of the places where the predicate holds
retain(s, kept) == Pick(s, kept)

StrongPunctuation == {".", ":", "?", "!"}
ends_with_strong_punctuation(e) == \E c \in StrongPunctuation : ends_with(e.s, <<c>>)

tokens_split_at_strong_punctuation_keeping(toks) ==
    LET hard_punct == position({i \in 1..Len(toks) : ends_with_strong_punctuation(toks[i])})
    IN  IF hard_punct # None
        THEN LET r == split_at(toks, hard_punct[1] + 1)
             IN  IF r.panic THEN Panicked(toks) ELSE Ok(r.left)
        ELSE Ok(toks)

tokens_split_at_strong_punctuation(toks) ==
    LET hard_punct == position({i \in 1..Len(toks) : ends_with_strong_punctuation(toks[i])})
    IN  IF hard_punct # None
        THEN LET r == split_at(toks, hard_punct[1])
             IN  IF r.panic THEN Panicked(toks) ELSE Ok(r.left)
        ELSE Ok(toks)

\* the end marker is looked for after the start token only
while_let_start_end_after(toks, delimiters) ==
    LET starts(token) == starts_with(token.s, delimiters[1])
        ends(token) == ends_with(token.s, delimiters[2])
        start == position({i \in 1..Len(toks) : starts(toks[i])})
    IN  IF start # None
        THEN LET rest == SubSeq(toks, start[1] + 2, Len(toks))
                 end == position({i \in 1..Len(rest) : ends(rest[i])})
             IN  IF end # None
                 THEN LET r == drain(toks, start[1], end[1] + start[1] + 2)
                      IN  [panic |-> r.panic, tokens |-> r.tokens, again |-> ~r.panic]
                 ELSE [panic |-> FALSE, tokens |-> toks, again |-> FALSE]
        ELSE [panic |-> FALSE, tokens |-> toks, again |-> FALSE]

\* the index found in the slice tokens[start ..] is taken as one of tokens
while_let_start_unshifted(toks, delimiters) ==
    LET starts(token) == starts_with(token.s, delimiters[1])
        ends(token) == ends_with(token.s, delimiters[2])
        start == position({i \in 1..Len(toks) : starts(toks[i])})
    IN  IF start # None
        THEN LET rest == SubSeq(toks, start[1] + 1, Len(toks))
                 end == position({i \in 1..Len(rest) : ends(rest[i])})
             IN  IF end # None
                 THEN LET r == drain(toks, start[1], end[1] + 1)
                      IN  [panic |-> r.panic, tokens |-> r.tokens, again |-> ~r.panic]
                 ELSE [panic |-> FALSE, tokens |-> toks, again |-> FALSE]
        ELSE [panic |-> FALSE, tokens |-> toks, again |-> FALSE]

\* one iteration of the while-let loop of remove_tokens_between_delimiters:
\* again = TRUE when the loop goes round once more
while_let_start(toks, delimiters) ==
    LET starts(token) == starts_with(token.s, delimiters[1])
        ends(token) == ends_with(token.s, delimiters[2])
        start == position({i \in 1..Len(toks) : starts(toks[i])})
    IN  IF start # None
        THEN LET rest == SubSeq(toks, start[1] + 1, Len(toks))
                 end == position({i \in 1..Len(rest) : ends(rest[i])})
             IN  IF end # None
                 THEN LET r == drain(toks, start[1], end[1] + start[1] + 1)
                      IN  [panic |-> r.panic, tokens |-> r.tokens, again |-> ~r.panic]
                 ELSE [panic |-> FALSE, tokens |-> toks, again |-> FALSE]
        ELSE [panic |-> FALSE, tokens |-> toks, again |-> FALSE]

RECURSIVE remove_tokens_between_delimiters(_, _)
remove_tokens_between_delimiters(toks, delimiters) ==
    LET r == while_let_start(toks, delimiters)
    IN  IF r.again
        THEN remove_tokens_between_delimiters(r.tokens, delimiters)
        ELSE [panic |-> r.panic, tokens |-> r.tokens]

Parentheses == <<<<"(">>, <<")">>>>
Brackets == <<<<"[">>, <<"]">>>>

---------------------------------------------------------------------------
(* The cleaner is absent while a function is called on its own *)

NoCleaner ==
    /\ variant = "none" /\ input = <<>> /\ tokens = <<>>
    /\ token_min_lenght = 0 /\ pc = "none" /\ calls = <<>>

NoCall == [f |-> "none", d |-> <<>>]

---------------------------------------------------------------------------
(* The primitive transforms called on their own *)

TokAlphabet == {"a", "A", "1", "-", ".", " ", "E_acute", "e_acute", "sup1"}
TokStrings == UNION {[1..n -> TokAlphabet] : n \in 0..MaxTokLen}

InitTok ==
    /\ NoCleaner
    /\ call = NoCall
    /\ \E s \in TokStrings, o \in BOOLEAN : arg = [s |-> s, owned |-> o]
    /\ ret = arg

Returns(f, d, value) ==
    /\ call = NoCall
    /\ call' = [f |-> f, d |-> d]
    /\ ret' = value
    /\ UNCHANGED <<variant, input, tokens, token_min_lenght, pc, calls, arg>>

Call_token_to_lowercase ==
    Returns("token_to_lowercase", <<>>, token_to_lowercase(arg))

Call_token_trim ==
    Returns("token_trim", <<>>, token_trim(arg))

Call_unidecode_token ==
    Returns("unidecode_token", <<>>, unidecode_token(arg))

Call_remove_token_digit_and_punctuation ==
    Returns("remove_token_digit_and_punctuation", <<>>, remove_token_digit_and_punctuation(arg))

Call_remove_token_non_ascii_chars ==
    Returns("remove_token_non_ascii_chars", <<>>, remove_token_non_ascii_chars(arg))

NextTok ==
    \/ Call_token_to_lowercase
    \/ Call_token_trim
    \/ Call_unidecode_token
    \/ Call_remove_token_digit_and_punctuation
    \/ Call_remove_token_non_ascii_chars

SpecTok == InitTok /\ [][NextTok]_vars

Primitives ==
    {"token_to_lowercase", "token_trim", "unidecode_token",
     "remove_token_digit_and_punctuation", "remove_token_non_ascii_chars"}

\* C6: remove_token_digit_and_punctuation removes every ASCII digit and every
\* ASCII punctuation character except a hyphen strictly between two other
\* characters (position > 0 and position < length - 1): a leading and a
\* trailing hyphen are removed, an interior one is kept.
C6_OnlyInteriorHyphenKept ==
    call.f = "remove_token_digit_and_punctuation" =>
        ret.s = Pick(arg.s,
            {i \in 1..Len(arg.s) :
                \/ ~is_ascii_digit(arg.s[i]) /\ ~is_ascii_punctuation(arg.s[i])
                \/ arg.s[i] = "-" /\ 1 < i /\ i < Len(arg.s)})

\* C7: a primitive transform replaces a borrowed token with an Owned value
\* only when its output differs from the token's content; a token whose
\* content is left equal keeps its ownership tag.
C7_OwnedOnlyWhenChanged ==
    call.f \in Primitives =>
        /\ (~arg.owned /\ ret.owned) => ret.s # arg.s
        /\ ret.s = arg.s => ret.owned = arg.owned

\* C10: after token_trim a token has neither leading nor trailing ASCII
\* whitespace, and a token with no boundary whitespace is left untouched.
C10_TrimBothEnds ==
    call.f = "token_trim" =>
        /\ ret.s # <<>> =>
              ~is_ascii_whitespace(ret.s[1]) /\ ~is_ascii_whitespace(ret.s[Len(ret.s)])
        /\ (arg.s = <<>> \/ (~is_ascii_whitespace(arg.s[1])
                              /\ ~is_ascii_whitespace(arg.s[Len(arg.s)]))) => ret = arg

\* C11: remove_token_non_ascii_chars returns exactly the ASCII characters of
\* the token in their original order: every non-ASCII character is removed,
\* every ASCII character is kept (those before the first non-ASCII character
\* included), and a fully ASCII token is unchanged.
C11_KeepsEveryAsciiChar ==
    call.f = "remove_token_non_ascii_chars" =>
        /\ ret.s = SelectSeq(arg.s, is_ascii)
        /\ (\A i \in 1..Len(arg.s) : is_ascii(arg.s[i])) => ret = arg

---------------------------------------------------------------------------
(* The sequence transforms called on their own.  Only the first and the    *)
(* last character of a token decide what they do: the tokens are all the   *)
(* strings of at most two characters.                                      *)

ArgAlphabet == {"a", "(", ")", "."}
ArgStrings == UNION {[1..n -> ArgAlphabet] : n \in 0..2}
ArgSeqs == UNION {[1..n -> {Borrowed(s) : s \in ArgStrings}] : n \in 0..MaxArgLen}

InitSeq ==
    /\ NoCleaner
    /\ call = NoCall
    /\ arg \in ArgSeqs
    /\ ret = Ok(arg)

Call_remove_tokens_between_delimiters ==
    \E d \in {Parentheses, Brackets} :
        Returns("remove_tokens_between_delimiters", d,
                remove_tokens_between_delimiters(arg, d))

Call_tokens_split_at_strong_punctuation ==
    Returns("tokens_split_at_strong_punctuation", <<>>,
            tokens_split_at_strong_punctuation(arg))

NextSeq ==
    \/ Call_remove_tokens_between_delimiters
    \/ Call_tokens_split_at_strong_punctuation

SpecSeq == InitSeq /\ [][NextSeq]_vars

Min(S) == CHOOSE i \in S : \A k \in S : i <= k

\* the indices of toks, from i on, that one left-to-right pass removes: the
\* range from the next start token to the first end token at or after it,
\* and so on after that range; nothing once a start token has no end token
RECURSIVE RemovedFrom(_, _, _)
RemovedFrom(toks, d, i) ==
    LET starts == {s \in i..Len(toks) : starts_with(toks[s].s, d[1])}
    IN  IF starts = {} THEN {}
        ELSE LET s == Min(starts)
                 ends == {e \in s..Len(toks) : ends_with(toks[e].s, d[2])}
             IN  IF ends = {} THEN {}
                 ELSE (s..Min(ends)) \cup RemovedFrom(toks, d, Min(ends) + 1)

\* C3: remove_tokens_between_delimiters removes, from the first start token
\* on, each inclusive range from a start token to the first end token at or
\* after it; it stops at a start token with no end token at or after it,
\* leaving that token and all that follow; the other tokens are kept as they
\* are and in order.
C3_RemovesDelimitedRanges ==
    call.f = "remove_tokens_between_delimiters" =>
        LET d == call.d
            out == ret.tokens
            startsAt == {i \in 1..Len(out) : starts_with(out[i].s, d[1])}
        IN  /\ ~ret.panic
            /\ out = Pick(arg, (1..Len(arg)) \ RemovedFrom(arg, d, 1))
            /\ startsAt # {} =>
                  /\ \A e \in Min(startsAt)..Len(out) : ~ends_with(out[e].s, d[2])
                  /\ LET n == Len(out) - Min(startsAt) + 1
                     IN  SubSeq(out, Min(startsAt), Len(out))
                           = SubSeq(arg, Len(arg) - n + 1, Len(arg))
            /\ (\A i \in 1..Len(arg) : ~starts_with(arg[i].s, d[1])) => out = arg

\* a range was removed, and an unterminated start token after it was left
C3_Witness ==
    /\ call.f = "remove_tokens_between_delimiters"
    /\ call.d = Parentheses
    /\ Len(ret.tokens) < Len(arg)
    /\ \E i \in 1..Len(ret.tokens) : starts_with(ret.tokens[i].s, <<"(">>)

\* C4: subtitle truncation keeps exactly the tokens strictly before the
\* first token ending with '.', ':', '?' or '!', and leaves the sequence
\* unchanged when there is none.
C4_TruncatesBeforeStrongPunctuation ==
    call.f = "tokens_split_at_strong_punctuation" =>
        LET strong == {i \in 1..Len(arg) :
                          arg[i].s # <<>> /\ arg[i].s[Len(arg[i].s)] \in {".", ":", "?", "!"}}
        IN  /\ ~ret.panic
            /\ IF strong = {} THEN ret.tokens = arg
               ELSE ret.tokens = SubSeq(arg, 1, Min(strong) - 1)

\* a token ending with strong punctuation and a token after it were dropped,
\* the token before them kept
C4_Witness ==
    /\ call.f = "tokens_split_at_strong_punctuation"
    /\ Len(ret.tokens) >= 1
    /\ Len(arg) >= Len(ret.tokens) + 2

---------------------------------------------------------------------------
(* The cleaners.  variant names the struct; Init is the state new() leaves *)
(* for an input slice.  clean() runs step by step: pc is its position,     *)
(* "idle" between calls.  calls records, for each clean() call so far, the *)
(* threshold and the tokens at its entry.                                  *)

DefaultTokenMinLenght == 3

Variants == {"TextCleaner", "TitleCleaner", "AuthorCleaner"}

\* the tokens an input slice is made of: a clean token, one with an accented
\* capital and a superscript digit, a start marker with a capital, an end
\* marker, a bracketed token, and one ending a title
Pool ==
    { <<"a", "b", "a", "b">>,
      <<"E_acute", "sup1", "b">>,
      <<"(", "A", "b">>,
      <<")">>,
      <<"[", "a", "b", "]">>,
      <<"a", "b", ".">> }

Inputs == UNION {[1..n -> Pool] : n \in 0..MaxSeqLen}

\* TextCleaner::new, TitleCleaner::new, AuthorCleaner::new
new(slice) == [i \in 1..Len(slice) |-> Borrowed(slice[i])]

\* the closures handed to for_each
TextCleaner_for_each(token) ==
    token_trim(remove_token_digit_and_punctuation(remove_token_non_ascii_chars(
        unidecode_token(token_to_lowercase(token)))))

TitleCleaner_for_each(token) ==
    token_trim(remove_token_digit_and_punctuation(remove_token_non_ascii_chars(
        unidecode_token(token_to_lowercase(token)))))

AuthorCleaner_for_each(token) ==
    token_trim(remove_token_non_ascii_chars(unidecode_token(
        remove_token_digit_and_punctuation(token_to_lowercase(token)))))

for_each(v, token) ==
    CASE v = "TextCleaner" -> TextCleaner_for_each(token)
      [] v = "TitleCleaner" -> TitleCleaner_for_each(token)
      [] v = "AuthorCleaner" -> AuthorCleaner_for_each(token)

\* the AuthorCleaner has no token_min_lenght field: 0 stands for its absence
Init ==
    /\ call = NoCall /\ arg = <<>> /\ ret = <<>>
    /\ variant \in Variants
    /\ input \in Inputs
    /\ tokens = new(input)
    /\ token_min_lenght = IF variant = "AuthorCleaner" THEN 0 ELSE DefaultTokenMinLenght
    /\ pc = "idle"
    /\ calls = <<>>

\* TextCleaner::token_min_lenght, TitleCleaner::token_min_lenght
Set_token_min_lenght ==
    /\ pc = "idle"
    /\ variant # "AuthorCleaner"
    /\ \E thresold \in 0..MaxThreshold : token_min_lenght' = thresold
    /\ UNCHANGED <<variant, input, tokens, pc, calls, call, arg, ret>>

\* clean() is entered
Clean ==
    /\ pc = "idle"
    /\ Len(calls) < MaxCleans
    /\ calls' = Append(calls, [min |-> token_min_lenght, before |-> tokens])
    /\ pc' = CASE variant = "TextCleaner" -> "min_lenght"
               [] variant = "TitleCleaner" -> "split"
               [] variant = "AuthorCleaner" -> "parentheses"
    /\ UNCHANGED <<variant, input, tokens, token_min_lenght, call, arg, ret>>

Clean_split ==
    /\ pc = "split"
    /\ LET r == tokens_split_at_strong_punctuation(tokens)
       IN  /\ tokens' = r.tokens
           /\ pc' = IF r.panic THEN "panic" ELSE "parentheses"
    /\ UNCHANGED <<variant, input, token_min_lenght, calls, call, arg, ret>>

Clean_parentheses ==
    /\ pc = "parentheses"
    /\ LET r == while_let_start(tokens, Parentheses)
       IN  /\ tokens' = r.tokens
           /\ pc' = IF r.panic THEN "panic"
                    ELSE IF r.again THEN "parentheses" ELSE "brackets"
    /\ UNCHANGED <<variant, input, token_min_lenght, calls, call, arg, ret>>

Clean_brackets ==
    /\ pc = "brackets"
    /\ LET r == while_let_start(tokens, Brackets)
       IN  /\ tokens' = r.tokens
           /\ pc' = IF r.panic THEN "panic"
                    ELSE IF r.again THEN "brackets"
                    ELSE IF variant = "TitleCleaner" THEN "min_lenght" ELSE "for_each"
    /\ UNCHANGED <<variant, input, token_min_lenght, calls, call, arg, ret>>

Clean_min_lenght ==
    /\ pc = "min_lenght"
    /\ tokens' = retain(tokens, {i \in 1..Len(tokens) :
                                    ~(len(tokens[i].s) <= token_min_lenght)})
    /\ pc' = "for_each"
    /\ UNCHANGED <<variant, input, token_min_lenght, calls, call, arg, ret>>

Clean_for_each ==
    /\ pc = "for_each"
    /\ tokens' = [i \in 1..Len(tokens) |-> for_each(variant, tokens[i])]
    /\ pc' = "retain"
    /\ UNCHANGED <<variant, input, token_min_lenght, calls, call, arg, ret>>

\* the empty tokens are dropped; clean() returns (shrink_to_fit changes the
\* capacity only)
Clean_retain ==
    /\ pc = "retain"
    /\ tokens' = retain(tokens, {i \in 1..Len(tokens) : tokens[i].s # <<>>})
    /\ pc' = "idle"
    /\ UNCHANGED <<variant, input, token_min_lenght, calls, call, arg, ret>>

Next ==
    \/ Set_token_min_lenght
    \/ Clean
    \/ Clean_split
    \/ Clean_parentheses
    \/ Clean_brackets
    \/ Clean_min_lenght
    \/ Clean_for_each
    \/ Clean_retain

Spec == Init /\ [][Next]_vars

---------------------------------------------------------------------------
(* Claims about the cleaners *)

\* what tokens() compares: the contents, whatever the ownership
strs(toks) == [i \in 1..Len(toks) |-> toks[i].s]

LastCall == calls[Len(calls)]

\* bindings/python.rs: clean_title and clean_author construct a cleaner,
\* call clean() once and return the tokens as strings
clean_title_returned ==
    /\ variant = "TitleCleaner" /\ pc = "idle" /\ Len(calls) = 1
    /\ calls[1].min = DefaultTokenMinLenght

clean_author_returned ==
    variant = "AuthorCleaner" /\ pc = "idle" /\ Len(calls) = 1

\* C1: a second clean() with the same threshold leaves tokens() equal to the
\* result of the first clean().
C1_CleanIdempotent ==
    (/\ pc = "idle"
     /\ Len(calls) >= 2
     /\ LastCall.min = calls[Len(calls) - 1].min)
        => strs(tokens) = strs(LastCall.before)

\* C2: every token clean_title and clean_author return is ASCII and has no
\* uppercase letter.
C2_LowercaseAscii ==
    (clean_title_returned \/ clean_author_returned) =>
        \A i \in 1..Len(tokens) : \A j \in 1..Len(tokens[i].s) :
            is_ascii(tokens[i].s[j]) /\ tokens[i].s[j] \notin AsciiUpper

\* C5: the minimum-length filter drops a token exactly when its length in
\* characters is <= the threshold and keeps it exactly when it is greater.
C5_MinLengthInCharacters ==
    [][pc = "min_lenght" =>
          tokens' = Pick(tokens, {i \in 1..Len(tokens) :
                                     Len(tokens[i].s) > token_min_lenght})]_vars

\* C8: the tokens clean() leaves are those of a subset of the positions it
\* started from, each cleaned, in their original order.
C8_OrderPreserved ==
    (pc = "idle" /\ calls # <<>>) =>
        LET before == LastCall.before
            cleaned == [i \in 1..Len(before) |-> for_each(variant, before[i])]
        IN  \E K \in SUBSET (1..Len(before)) : tokens = Pick(cleaned, K)

\* a bracketed token between two others was removed and both others kept
C8_Witness ==
    /\ pc = "idle" /\ Len(calls) = 1
    /\ variant = "TitleCleaner"
    /\ Len(input) >= 3
    /\ starts_with(input[2], <<"[">>)
    /\ Len(tokens) = Len(input) - 1

\* the position of clean(): the steps still ahead of it
Rank(p) ==
    CASE p = "split" -> 6
      [] p = "parentheses" -> 5
      [] p = "brackets" -> 4
      [] p = "min_lenght" -> 3
      [] p = "for_each" -> 2
      [] p = "retain" -> 1
      [] OTHER -> 0

\* C9: clean() never panics (the drained range and the split index are in
\* bounds) and always returns: a round of a removal loop either stops the
\* loop or removes at least one token, and every step of clean() moves on to
\* a later stage or goes round a loop again with fewer tokens.
C9_Totality ==
    /\ [](pc # "panic")
    /\ [](pc \in {"parentheses", "brackets"} =>
            LET r == while_let_start(tokens,
                        IF pc = "parentheses" THEN Parentheses ELSE Brackets)
            IN  ~r.panic /\ (r.again => Len(r.tokens) < Len(tokens)))
    /\ [][pc # "idle" =>
             \/ Rank(pc') < Rank(pc)
             \/ Rank(pc') = Rank(pc) /\ Len(tokens') < Len(tokens)]_vars

\* clean() returned for an input with a removed span followed by a start
\* marker that nothing ends
C9_Witness ==
    /\ pc = "idle" /\ Len(calls) >= 1
    /\ \E i \in 1..Len(input) :
          /\ starts_with(input[i], <<"(">>)
          /\ \A j \in i..Len(input) : ~ends_with(input[j], <<")">>)
          /\ \E k \in 1..(i - 1) : starts_with(input[k], <<"[">>)

\* C12: after clean() of any variant, the AuthorCleaner included, no
\* remaining token is empty and no remaining token contains an ASCII digit
\* or an ASCII punctuation character other than '-'.
C12_NoDigitNoPunctuationLeft ==
    (pc = "idle" /\ Len(calls) >= 1) =>
        \A i \in 1..Len(tokens) :
            /\ tokens[i].s # <<>>
            /\ \A j \in 1..Len(tokens[i].s) :
                  /\ ~is_ascii_digit(tokens[i].s[j])
                  /\ is_ascii_punctuation(tokens[i].s[j]) => tokens[i].s[j] = "-"

====
